---- MODULE Spec2Model ----
(***************************************************************************)
(* Model of the ElysiaLogging middleware (src/src/elysiaLogging.ts), the   *)
(* Log formatters (src/src/log.ts) and the storage adapter interface       *)
(* (src/src/adapters/consoleAdapter.ts).                                   *)
(*                                                                         *)
(* One middleware instance is configured (Construct) and then serves a     *)
(* bounded number of HTTP exchanges whose lifecycle hooks interleave       *)
(* freely.  Strings are TLA+ strings; a JavaScript object is a function    *)
(* from its keys to its values, so an absent key is a key not in DOMAIN.   *)
(***************************************************************************)
EXTENDS Integers, Sequences, FiniteSets, TLC

\* ------------------------------------------------------------------ bounds

\* Number of HTTP exchanges the server receives.
NumExchanges == 2

\* How often the framework may fire the error hook within one exchange.
MaxErrorFirings == 2

\* Number of instants after the first at which the monotonic clock
\* (process.hrtime) is read.
MaxClock == 1

Exchanges == 1..NumExchanges

\* Milliseconds between two such instants, and the readings themselves.
ClockTick == 42

ClockReadings == { ClockTick * k : k \in 0..MaxClock }

\* ------------------------------------------------------ JavaScript values

Null == "<null>"
Undefined == "<undefined>"

\* a || b on strings: null, undefined and "" are falsy.
Falsy(v) == v \in {Null, Undefined, ""}

OrElse(a, b) == IF Falsy(a) THEN b ELSE a

\* { ...a, ...b }: keys of both, b's value winning where both have the key.
Spread(a, b) ==
  [k \in (DOMAIN a) \cup (DOMAIN b) |-> IF k \in DOMAIN b THEN b[k] ELSE a[k]]

\* A header name in lower case, which is how a Headers object keeps and
\* looks up names.
ToLowerCase(name) ==
  CASE name = "Authorization" -> "authorization"
    [] name = "X-Forwarded-Proto" -> "x-forwarded-proto"
    [] OTHER -> name

\* Headers.get(name): the value, or null when the header is absent.
HeadersGet(headers, name) ==
  IF ToLowerCase(name) \in DOMAIN headers
    THEN headers[ToLowerCase(name)] ELSE Null

\* Headers.has(name)
HeadersHas(headers, name) == ToLowerCase(name) \in DOMAIN headers

\* ------------------------------------------------------------ the options

\* A format option: a string (split into its first character and the rest,
\* which is what capitalisation looks at), a function, or any other value.
StringFormat(first, rest) == [type |-> "string", first |-> first, rest |-> rest]

FunctionFormat == [type |-> "function", first |-> "", rest |-> ""]

\* A format function that throws when it is called.
ThrowingFormat ==
  [type |-> "function", first |-> "", rest |-> "", throws |-> TRUE]

ObjectFormat == [type |-> "object", first |-> "", rest |-> ""]

Formats ==
  { StringFormat("j", "son"), StringFormat("J", "son"),
    StringFormat("c", "ommon"), StringFormat("s", "hort"),
    StringFormat("x", "ml"), StringFormat("", ""),
    FunctionFormat, ObjectFormat }

\* The level option is any string; "verbose" names no method of the logger.
Levels == {"info", "verbose"}

\* The skip option: absent, or a predicate over the exchange context (here
\* one that skips the health-check path).
Skips == {"none", "skipHealth"}

\* The storage adapter in use: the ConsoleStorageAdapter, whose init() and
\* saveLog() run to their end within the call and never fail, or a custom
\* adapter, whose promises stay pending and settle later, either way.
Adapters == {"console", "custom"}

\* includeHeaders default
IncludeHeadersDefault == <<"x-forwarded-for", "authorization">>

\* includeHeaders as a caller may give it: nothing, other names, a name in
\* another case, a name twice.
IncludeHeadersLists ==
  { IncludeHeadersDefault, <<>>, <<"x-forwarded-proto", "authorization">>,
    <<"Authorization", "x-real-ip", "Authorization">> }

\* ipHeaders default
headersToCheck ==
  << "x-forwarded-for", "x-real-ip", "x-client-ip", "cf-connecting-ip",
     "fastly-client-ip", "x-cluster-client-ip", "x-forwarded", "forwarded-for",
     "forwarded", "appengine-user-ip", "true-client-ip", "cf-pseudo-ipv4" >>

\* ipHeaders as a caller may give it.
IPHeadersLists == { headersToCheck, <<"x-real-ip", "x-forwarded-for">>, <<>> }

\* Methods of the Logger interface.
LoggerMethods == {"debug", "info", "warn", "error"}

\* The logger argument: the console, or a logger whose methods throw.
Loggers == {"console", "throwing"}

\* ------------------------------------------------------------ the requests

BasicAlice == "Basic YWxpY2U6c2VjcmV0"

\* A header mapping from the optional values of two headers.
MkHeaders(auth, rid) ==
  LET a == IF auth = Null THEN <<>> ELSE [h \in {"authorization"} |-> auth]
      r == IF rid = Null THEN <<>> ELSE [h \in {"x-request-id"} |-> rid]
  IN  Spread(a, r)

\* A request: its method, the path and the query of its URL (the query as
\* the sequence of its name=value pairs, as written), and its headers.
MkRequest(method, path, search, headers) ==
  [method |-> method, path |-> path, search |-> search, headers |-> headers]

NoParams == <<>>

\* One header.
Header(name, value) == [h \in {name} |-> value]

\* The requests the exchanges are drawn from: between them every header is
\* present, absent and (for the request id) empty, on both paths.
Requests ==
  { MkRequest("GET", "/users", << <<"active", "true">> >>,
              MkHeaders(BasicAlice, Null)),
    MkRequest("GET", "/users", << <<"active", "true">> >>,
              MkHeaders(Null, "")),
    MkRequest("GET", "/health", NoParams, MkHeaders(Null, "abc-123")),
    MkRequest("POST", "/health", NoParams, MkHeaders(BasicAlice, "abc-123")) }

\* Requests that came through proxies: a forwarded-for list with a real-ip,
\* an empty forwarded-for with a real-ip, and none of the ip headers; with
\* and without a forwarded protocol, Basic and Bearer credentials, a cookie.
ProxiedRequests ==
  { MkRequest("GET", "/users", << <<"active", "true">> >>,
      Spread(Spread(Header("x-forwarded-for", "1.2.3.4, 5.6.7.8"),
                    Header("x-real-ip", "9.9.9.9")),
             Spread(Header("x-forwarded-proto", "https"),
                    Header("authorization", BasicAlice)))),
    MkRequest("GET", "/users", NoParams,
      Spread(Header("x-forwarded-for", ""), Header("x-real-ip", "9.9.9.9"))),
    MkRequest("POST", "/users", NoParams,
      Spread(Header("authorization", "Bearer xyz"), Header("cookie", "sid=1"))) }

\* Requests whose query repeats a name or carries an encoded character.
QueryRequests ==
  { MkRequest("GET", "/users", << <<"tag", "a">>, <<"tag", "b">> >>,
              MkHeaders(BasicAlice, Null)),
    MkRequest("GET", "/search", << <<"q", "a%20b">>, <<"page", "2">> >>,
              MkHeaders(Null, Null)) }

\* Values the application may throw.
ErrorValues == {"Whoops!", "NOT_FOUND"}

\* What the error hook is given in the course of one exchange.
ThrowSeqs == UNION { [1..n -> ErrorValues] : n \in 0..MaxErrorFirings }

\* One inbound exchange: the request, and the errors raised while serving it.
Inbound(r, throws) == [request |-> r, throws |-> throws]

\* Date.now() readings and Math.random().toString(36).substr(2, 9) results
\* (the latter is "" when Math.random() returns 0).
DateNowValues == {1730000000}

RandomSuffixes == {"", "k3x9q0z1a"}

\* The application's store before any hook of the plugin has run.
InitialStore == [appState |-> "kept"]

\* app.server: null while the app handles requests without listening, else
\* the server, whose requestIP(request) is the socket peer or null.
NoServer == [listening |-> FALSE, peer |-> Null]

Server(peer) == [listening |-> TRUE, peer |-> peer]

\* The socket peer address of the requests.
PeerAddress == "127.0.0.1"

Servers == { NoServer, Server(PeerAddress), Server(Null) }

\* ------------------------------------------------------------- helpers.ts

\* String.prototype.toUpperCase on the one character charAt(0) returns.
ToUpperCase(c) ==
  CASE c = "j" -> "J"
    [] c = "c" -> "C"
    [] c = "s" -> "S"
    [] c = "x" -> "X"
    [] OTHER -> c

\* getFormattingMethodName(format): "format" + Capitalized(format)
getFormattingMethodName(format) ==
  "format" \o ToUpperCase(format.first) \o format.rest

\* formatDuration(milliseconds): seconds from 1000 ms on, else milliseconds.
formatDuration(ms) ==
  IF ms >= 1000
    THEN ToString(ms \div 1000) \o "." \o ToString((ms % 1000) \div 100)
         \o ToString((ms % 100) \div 10) \o "s"
    ELSE ToString(ms) \o "ms"

\* parseBasicAuthHeader(value): the decoded credentials of "Basic <base64>"
\* as a one-element sequence, or the empty sequence for its undefined.
\* base64("alice:secret") = "YWxpY2U6c2VjcmV0".
parseBasicAuthHeader(value) ==
  IF value = "Basic YWxpY2U6c2VjcmV0"
    THEN << [type |-> "Basic", username |-> "alice", password |-> "secret"] >>
    ELSE <<>>

\* The first entry of a comma-separated header value, trimmed.
FirstEntry(value) ==
  CASE value = "1.2.3.4, 5.6.7.8" -> "1.2.3.4"
    [] OTHER -> value

\* getIP(headers, ipHeaders): the first header of ipHeaders, in order, that
\* is present and non-empty; null when there is none.
RECURSIVE getIP(_, _)
getIP(headers, ipHeaders) ==
  IF ipHeaders = <<>> THEN Null
  ELSE IF ~Falsy(HeadersGet(headers, Head(ipHeaders)))
    THEN FirstEntry(HeadersGet(headers, Head(ipHeaders)))
    ELSE getIP(headers, Tail(ipHeaders))

\* -------------------------------------------------- URLs and their queries

\* Percent-decoding of a query value as URLSearchParams reads it.
DecodeComponent(raw) ==
  CASE raw = "a%20b" -> "a b"
    [] OTHER -> raw

\* The application/x-www-form-urlencoded form URLSearchParams writes.
EncodeComponent(value) ==
  CASE value = "a b" -> "a+b"
    [] OTHER -> value

\* new URL(request.url).search: "" without a query, else "?" and the pairs
\* as the client wrote them.
RECURSIVE JoinPairs(_)
JoinPairs(pairs) ==
  IF pairs = <<>> THEN ""
  ELSE Head(pairs)[1] \o "=" \o Head(pairs)[2]
       \o (IF Tail(pairs) = <<>> THEN "" ELSE "&" \o JoinPairs(Tail(pairs)))

RawSearch(search) == IF search = <<>> THEN "" ELSE "?" \o JoinPairs(search)

\* new URLSearchParams(search): the pairs in order, values decoded.
RECURSIVE ParseSearch(_)
ParseSearch(search) ==
  IF search = <<>> THEN <<>>
  ELSE << << Head(search)[1], DecodeComponent(Head(search)[2]) >> >>
       \o ParseSearch(Tail(search))

\* An object with string keys is the sequence of its <<key, value>> entries
\* in insertion order.  Setting a key the object has keeps the key's place
\* and replaces its value.
RECURSIVE SetKey(_, _, _)
SetKey(object, key, value) ==
  IF object = <<>> THEN << << key, value >> >>
  ELSE IF Head(object)[1] = key THEN << << key, value >> >> \o Tail(object)
  ELSE << Head(object) >> \o SetKey(Tail(object), key, value)

\* Object.fromEntries(entries)
RECURSIVE FromEntriesInto(_, _)
FromEntriesInto(object, entries) ==
  IF entries = <<>> THEN object
  ELSE FromEntriesInto(SetKey(object, Head(entries)[1], Head(entries)[2]),
                       Tail(entries))

FromEntries(entries) == FromEntriesInto(<<>>, entries)

\* new URLSearchParams(object).toString()
RECURSIVE EncodePairs(_)
EncodePairs(params) ==
  IF params = <<>> THEN <<>>
  ELSE << << Head(params)[1], EncodeComponent(Head(params)[2]) >> >>
       \o EncodePairs(Tail(params))

SerializeParams(params) == JoinPairs(EncodePairs(params))

\* ------------------------------------------------------------------ log.ts

\* `${v}` in a template literal: undefined renders as the word "undefined".
Interpolate(v) ==
  CASE v = Undefined -> "undefined"
    [] v = Null -> "null"
    [] OTHER -> v

\* Property names reachable from Log.prototype (its own accessors and
\* methods, then Object.prototype's), which is what `in` tests.
LogPrototype ==
  { "constructor", "error", "log", "formatJson", "formatCommon", "formatShort",
    "toString", "valueOf", "hasOwnProperty", "isPrototypeOf",
    "propertyIsEnumerable", "toLocaleString", "__proto__" }

\* Log.formatJson(): a copy with requestID guaranteed, response.message and
\* timestamp added.  genID is the id generated when the record has none,
\* isoNow the current instant.
formatJson(logObject, genID, isoNow) ==
  LET requestId ==
        OrElse(IF "requestID" \in DOMAIN logObject.request
                 THEN logObject.request.requestID ELSE Undefined, genID)
      message ==
        logObject.request.method \o " " \o logObject.request.url.path
        \o " completed with status " \o ToString(logObject.response.status_code)
        \o " in " \o formatDuration(logObject.response.time)
  IN  Spread(logObject,
        [request |-> Spread(logObject.request, [requestID |-> requestId]),
         response |-> Spread(logObject.response, [message |-> message]),
         timestamp |-> isoNow])

\* A common log line that always prints the default protocol.
formatCommon_DefaultProtocol(logObject, date) ==
  LET headers == IF "headers" \in DOMAIN logObject.request
                   THEN logObject.request.headers ELSE <<>>
      auth == IF "authorization" \in DOMAIN headers
                THEN headers["authorization"] ELSE ""
      parsed == parseBasicAuthHeader(auth)
      basicAuthUser == IF parsed = <<>> THEN "-" ELSE parsed[1].username
  IN  Interpolate(logObject.request.ip) \o " - " \o basicAuthUser \o " [" \o date \o "] \""
      \o logObject.request.method \o " " \o logObject.request.url.path \o " "
      \o "HTTP/1.1" \o "\" " \o ToString(logObject.response.status_code)
      \o " " \o "-"

\* Log.formatCommon(): the NCSA common log line, field by field.
formatCommon(logObject, date) ==
  LET headers == IF "headers" \in DOMAIN logObject.request
                   THEN logObject.request.headers ELSE <<>>
      auth == IF "authorization" \in DOMAIN headers
                THEN headers["authorization"] ELSE ""
      parsed == parseBasicAuthHeader(auth)
      basicAuthUser == IF parsed = <<>> THEN "-" ELSE parsed[1].username
      requestProtocol == IF "x-forwarded-proto" \in DOMAIN headers
                           THEN headers["x-forwarded-proto"] ELSE "HTTP/1.1"
  IN  Interpolate(logObject.request.ip) \o " - " \o basicAuthUser \o " [" \o date \o "] \""
      \o logObject.request.method \o " " \o logObject.request.url.path \o " "
      \o requestProtocol \o "\" " \o ToString(logObject.response.status_code)
      \o " " \o "-"

\* Object.keys(params).length ? `?${new URLSearchParams(params)}` : ""
QueryString(params) ==
  IF Len(params) = 0 THEN "" ELSE "?" \o SerializeParams(params)

\* Log.formatShort(): "[ip] METHOD path?query status (duration)"
formatShort(logObject) ==
  LET timeMessage == formatDuration(logObject.response.time)
      requestUri == logObject.request.url.path
                    \o QueryString(logObject.request.url.params)
  IN  "[" \o Interpolate(logObject.request.ip) \o "] " \o logObject.request.method \o " "
      \o requestUri \o " " \o ToString(logObject.response.status_code)
      \o " (" \o timeMessage \o ")"

\* ---------------------------------------------------------------- state

VARIABLES
  options,        \* the options the middleware is constructed with
  inbound,        \* the exchanges the server will be given
  server,         \* app.server
  proc,           \* "unconfigured", "configError", "running" or "exited"
  initState,      \* storageAdapter.init(): "none", "pending", "ok", "failed"
  hooksRegistered,\* whether the lifecycle hooks are registered on the app
  consoleError,   \* what console.error has been given
  now,            \* the last reading of process.hrtime, in milliseconds
  pc,             \* per exchange: where its lifecycle stands
  request,        \* per exchange: the request received
  ctx,            \* per exchange: the context (store, ip, set.status)
  response,       \* per exchange: what the client has been sent
  errorsFired,    \* per exchange: the errors passed to the error hook
  hrtimes,        \* per exchange: the clock readings its hooks took
  calls,          \* per exchange: the calls the after-response hook made
  formatted,      \* per exchange: the formatter calls, with their argument
  logged,         \* per exchange: the logger calls, with level and output
  saved,          \* per exchange: the records handed to saveLog
  pinoInfo,       \* per exchange: what the console adapter printed
  persist,        \* per exchange: saveLog's promise
  thrown          \* per exchange: what the plugin's hooks threw or rejected with

vars ==
  << options, inbound, server, proc, initState, hooksRegistered, consoleError,
     now, pc, request, ctx, response, errorsFired, hrtimes, calls, formatted,
     logged, saved, pinoInfo, persist, thrown >>

configVars ==
  << options, inbound, server, proc, initState, hooksRegistered, consoleError >>

dispatchVars == << calls, formatted, logged, saved, pinoInfo, persist, thrown >>

NoRequest == MkRequest("", "", NoParams, <<>>)

AllOptions ==
  [format : Formats, level : Levels, skip : Skips, adapter : Adapters,
   includeHeaders : {IncludeHeadersDefault}, ipHeaders : {headersToCheck},
   logger : {"console"}]

\* A single exchange: every request with every sequence of errors.
SingleWorkloads ==
  { << Inbound(r, t) >> : r \in Requests, t \in ThrowSeqs }

\* Overlapping exchanges: one that is served normally and one that fails and
\* is a health check, in every arrangement, under the built-in json format.
OverlapInbound ==
  { Inbound(MkRequest("GET", "/users", << <<"active", "true">> >>,
                      MkHeaders(BasicAlice, Null)), <<>>),
    Inbound(MkRequest("GET", "/health", NoParams, MkHeaders(Null, "abc-123")),
            << "Whoops!" >>) }

OverlapWorkloads == [1..NumExchanges -> OverlapInbound]

OverlapOptions ==
  [format : {StringFormat("j", "son")}, level : {"info"}, skip : Skips,
   adapter : Adapters, includeHeaders : {IncludeHeadersDefault},
   ipHeaders : {headersToCheck}, logger : {"console"}]

\* Proxied requests under every header list, with and without a server.
ProxyOptions ==
  [format : { StringFormat("j", "son"), StringFormat("c", "ommon"),
              StringFormat("s", "hort"), FunctionFormat },
   level : {"info"}, skip : {"none"}, adapter : {"console"},
   includeHeaders : IncludeHeadersLists, ipHeaders : IPHeadersLists,
   logger : {"console"}]

ProxyWorkloads == { << Inbound(r, <<>>) >> : r \in ProxiedRequests }

\* Requests with a query worth the name, under the built-in formats.
QueryOptions ==
  [format : { StringFormat("j", "son"), StringFormat("c", "ommon"),
              StringFormat("s", "hort") },
   level : {"info"}, skip : {"none"}, adapter : Adapters,
   includeHeaders : {IncludeHeadersDefault}, ipHeaders : {headersToCheck},
   logger : {"console"}]

QueryWorkloads ==
  { << Inbound(r, t) >> : r \in QueryRequests, t \in {<<>>, << "Whoops!" >>} }

\* Format functions and loggers that return or throw, at both levels.
DispatchOptions ==
  [format : { StringFormat("j", "son"), FunctionFormat, ThrowingFormat },
   level : Levels, skip : {"none"}, adapter : Adapters,
   includeHeaders : {IncludeHeadersDefault}, ipHeaders : {headersToCheck},
   logger : Loggers]

DispatchWorkloads ==
  { << Inbound(MkRequest("GET", "/users", << <<"active", "true">> >>,
                         MkHeaders(BasicAlice, Null)), t) >> :
      t \in {<<>>, << "Whoops!" >>} }

\* The options of the middleware, the exchanges it will be given and the
\* server of the app it is installed on.
Scenarios ==
  (AllOptions \X SingleWorkloads \X {Server(PeerAddress)})
    \cup (OverlapOptions \X OverlapWorkloads \X {Server(PeerAddress)})
    \cup (ProxyOptions \X ProxyWorkloads \X Servers)
    \cup (QueryOptions \X QueryWorkloads \X {Server(PeerAddress)})
    \cup (DispatchOptions \X DispatchWorkloads \X {Server(PeerAddress)})

NoResponse == [sent |-> FALSE, status |-> Undefined]

FreshCtx == [store |-> InitialStore, ip |-> Undefined, status |-> 200]

NoReadings == [start |-> <<>>, end |-> <<>>]

Init ==
  /\ \E s \in Scenarios : options = s[1] /\ inbound = s[2] /\ server = s[3]
  /\ proc = "unconfigured"
  /\ initState = "none"
  /\ hooksRegistered = FALSE
  /\ consoleError = <<>>
  /\ now = 0
  /\ pc = [e \in Exchanges |-> "idle"]
  /\ request = [e \in Exchanges |-> NoRequest]
  /\ ctx = [e \in Exchanges |-> FreshCtx]
  /\ response = [e \in Exchanges |-> NoResponse]
  /\ errorsFired = [e \in Exchanges |-> <<>>]
  /\ hrtimes = [e \in Exchanges |-> NoReadings]
  /\ calls = [e \in Exchanges |-> <<>>]
  /\ formatted = [e \in Exchanges |-> <<>>]
  /\ logged = [e \in Exchanges |-> <<>>]
  /\ saved = [e \in Exchanges |-> <<>>]
  /\ pinoInfo = [e \in Exchanges |-> <<>>]
  /\ persist = [e \in Exchanges |-> "none"]
  /\ thrown = [e \in Exchanges |-> <<>>]

\* --------------------------------------------------------- construction

\* A construction that does not check the format.
FormatterNotFound_Unchecked(format) == FALSE

\* typeof format === "string" && getFormattingMethodName(format) in
\* Log.prototype === false
FormatterNotFound(format) ==
  /\ format.type = "string"
  /\ getFormattingMethodName(format) \notin LogPrototype

\* What storageAdapter.init() has done when the call returns: the console
\* adapter's body has run to its end; another adapter's promise is pending.
InitCalled(adapter) == IF adapter = "console" THEN "ok" ELSE "pending"

\* The plugin applied to the app: the format check, then init(), then the
\* hooks.  The throw leaves the adapter untouched and the app without hooks.
Construct ==
  /\ proc = "unconfigured"
  /\ IF FormatterNotFound(options.format)
       THEN /\ proc' = "configError"
            /\ UNCHANGED << initState, hooksRegistered >>
       ELSE /\ initState' = InitCalled(options.adapter)
            /\ hooksRegistered' = TRUE
            /\ proc' = "running"
  /\ UNCHANGED << options, inbound, server, consoleError, now, pc, request, ctx,
                  response, errorsFired, hrtimes, dispatchVars >>

\* init()'s promise fulfils.
InitResolve ==
  /\ proc = "running"
  /\ initState = "pending"
  /\ initState' = "ok"
  /\ UNCHANGED << options, inbound, server, proc, hooksRegistered, consoleError,
                  now, pc, request, ctx, response, errorsFired, hrtimes,
                  dispatchVars >>

\* init()'s promise rejects: the catch handler reports and exits.
InitReject ==
  /\ proc = "running"
  /\ initState = "pending"
  /\ initState' = "failed"
  /\ consoleError' = Append(consoleError, "Failed to initialize storage adapter:")
  /\ proc' = "exited"
  /\ UNCHANGED << options, inbound, server, hooksRegistered, now, pc, request,
                  ctx, response, errorsFired, hrtimes, dispatchVars >>

\* ------------------------------------------------- the framework's part

\* The server serves while the process runs with the plugin installed.
Serving == proc = "running" /\ hooksRegistered

\* A request arrives; its context starts from the application's store.
Receive(e) ==
  /\ Serving
  /\ pc[e] = "idle"
  /\ e \in DOMAIN inbound
  /\ \A d \in Exchanges : d < e => pc[d] # "idle"
  /\ request' = [request EXCEPT ![e] = inbound[e].request]
  /\ ctx' = [ctx EXCEPT ![e] = FreshCtx]
  /\ pc' = [pc EXCEPT ![e] = "received"]
  /\ UNCHANGED << configVars, now, response, errorsFired, hrtimes, dispatchVars >>

\* The response goes out: after the handler, or after the error hook.
SendResponse(e) ==
  /\ Serving
  /\ pc[e] \in {"handled", "errored"}
  /\ errorsFired[e] = inbound[e].throws
  /\ LET status == IF errorsFired[e] # <<>> THEN 500 ELSE 200
     IN  /\ ctx' = [ctx EXCEPT ![e].status = status]
         /\ response' = [response EXCEPT ![e] = [sent |-> TRUE, status |-> status]]
  /\ pc' = [pc EXCEPT ![e] = "responded"]
  /\ UNCHANGED << configVars, now, request, errorsFired, hrtimes, dispatchVars >>

\* --------------------------------------------------- the plugin's hooks

\* app.server.requestIP(request)?.address
RequestIP(srv) == srv.peer

\* app.server ? getIP(...) ?? requestIP(...)?.address ?? undefined : undefined
ClientIP(srv, headers, ipHeaders) ==
  IF ~srv.listening THEN Undefined
  ELSE LET fromHeaders == getIP(headers, ipHeaders)
       IN  IF fromHeaders # Null THEN fromHeaders
           ELSE IF RequestIP(srv) # Null THEN RequestIP(srv) ELSE Undefined

\* .derive: ctx.ip
Derive(e) ==
  /\ Serving
  /\ pc[e] = "started"
  /\ ctx' = [ctx EXCEPT ![e].ip =
                ClientIP(server, request[e].headers, options.ipHeaders)]
  /\ pc' = [pc EXCEPT ![e] = "derived"]
  /\ UNCHANGED << configVars, now, request, response, errorsFired, hrtimes,
                  dispatchVars >>

\* An assignment that lands in the store every context shares.
AssignStore_Shared(ctxs, e, store) ==
  [d \in DOMAIN ctxs |-> [ctxs[d] EXCEPT !.store = store]]

\* ctx.store = ...: the store property of this exchange's context is set;
\* no other context and no object another context refers to is written.
AssignStore(ctxs, e, store) == [ctxs EXCEPT ![e].store = store]

\* An error merge in which the new value wins.
StoreAfterError_LastWins(store, error) == Spread(store, [error |-> error])

\* ctx.store = { error: ctx.error, ...ctx.store }
StoreAfterError(store, error) == Spread([error |-> error], store)

\* What the error hook throws: nothing.
OnErrorThrows(error) == <<>>

\* .onError
OnError(e) ==
  /\ Serving
  /\ pc[e] \in {"received", "started", "derived", "handled", "errored"}
  /\ Len(errorsFired[e]) < Len(inbound[e].throws)
  /\ LET error == inbound[e].throws[Len(errorsFired[e]) + 1]
     IN  /\ ctx' = AssignStore(ctx, e, StoreAfterError(ctx[e].store, error))
         /\ errorsFired' = [errorsFired EXCEPT ![e] = Append(@, error)]
         /\ thrown' = [thrown EXCEPT ![e] = @ \o OnErrorThrows(error)]
  /\ pc' = [pc EXCEPT ![e] = "errored"]
  /\ UNCHANGED << configVars, now, request, response, hrtimes, calls,
                  formatted, logged, saved, pinoInfo, persist >>

\* ctx.store = { requestStart: process.hrtime.bigint(), ...ctx.store }
StoreAfterRequest(store, hrtime) == Spread([requestStart |-> hrtime], store)

\* .onRequest
OnRequest(e) ==
  /\ Serving
  /\ pc[e] = "received"
  /\ \E t \in ClockReadings :
       /\ t >= now
       /\ now' = t
       /\ ctx' = AssignStore(ctx, e, StoreAfterRequest(ctx[e].store, t))
       /\ hrtimes' = [hrtimes EXCEPT ![e].start = << t >>]
  /\ pc' = [pc EXCEPT ![e] = "started"]
  /\ UNCHANGED << configVars, request, response, errorsFired, dispatchVars >>

\* ctx.store = { responseSize: undefined, ...ctx.store }
StoreAfterHandle(store) == Spread([responseSize |-> Undefined], store)

\* .onAfterHandle
OnAfterHandle(e) ==
  /\ Serving
  /\ pc[e] = "derived"
  /\ ctx' = AssignStore(ctx, e, StoreAfterHandle(ctx[e].store))
  /\ pc' = [pc EXCEPT ![e] = "handled"]
  /\ UNCHANGED << configVars, now, request, response, errorsFired, hrtimes,
                  dispatchVars >>

\* ------------------------------------------------------ onAfterResponse

\* A skip test that throws the predicate's argument away.
SkipReturns_Ignored(skip, req) == FALSE

\* A skip test that returns as soon as a predicate is configured.
SkipReturns_NotCalled(skip, req) == skip # "none"

\* skip && typeof skip === "function" && skip(ctx)
SkipReturns(skip, req) == skip # "none" /\ req.path = "/health"

\* A duration that is the clock reading itself, not a difference.
Duration_Absolute(store, hrtime) == hrtime

\* The duration in milliseconds: 0 unless the store holds a start reading.
Duration(store, hrtime) ==
  IF "requestStart" \in DOMAIN store /\ store.requestStart \in Int
    THEN hrtime - store.requestStart
    ELSE 0

\* new Log({ request: {...}, response: {...} }).log
NewLogObject(c, req, duration) ==
  [request |-> [ip |-> c.ip, method |-> req.method,
                url |-> [path |-> req.path,
                         params |-> FromEntries(ParseSearch(req.search))]],
   response |-> [status_code |-> c.status, time |-> duration]]

\* A log object that never takes the stored error.
WithError_Dropped(logObject, store) == logObject

\* logObject.error = ctx.store.error, when that is not undefined
WithError(logObject, store) ==
  IF "error" \in DOMAIN store /\ store.error # Undefined
    THEN Spread(logObject, [error |-> store.error])
    ELSE logObject

\* `req-${Date.now()}-${Math.random().toString(36).substr(2, 9)}`
GeneratedID(ms, suffix) == "req-" \o ToString(ms) \o "-" \o suffix

\* The request id with ?? in place of ||: an empty header is kept.
WithRequestID_Nullish(logObject, headers, generated) ==
  [logObject EXCEPT !.request =
     Spread(@, [requestID |->
       IF HeadersGet(headers, "x-request-id") \in {Null, Undefined}
         THEN generated ELSE HeadersGet(headers, "x-request-id")])]

\* logObject.request.requestID = headers.get("x-request-id") || generated
WithRequestID(logObject, headers, generated) ==
  [logObject EXCEPT !.request =
     Spread(@, [requestID |-> OrElse(HeadersGet(headers, "x-request-id"),
                                     generated)])]

\* A capture of every header of the request.
IncludedHeaders_All(headers, includeHeaders) == headers

\* The included headers: those of includeHeaders the request has, as received.
RECURSIVE IncludedHeaders(_, _)
IncludedHeaders(headers, includeHeaders) ==
  IF includeHeaders = <<>> THEN <<>>
  ELSE LET header == Head(includeHeaders)
           rest == IncludedHeaders(headers, Tail(includeHeaders))
       IN  IF HeadersHas(headers, header)
             THEN Spread([h \in {header} |-> HeadersGet(headers, header)], rest)
             ELSE rest

\* logObject.request.headers = {}; then the loop over includeHeaders
WithHeaders(logObject, headers, includeHeaders) ==
  [logObject EXCEPT !.request =
     Spread(@, [headers |-> IncludedHeaders(headers, includeHeaders)])]

\* The log object as it stands when the format is applied.
BuildLogObject(includeHeaders, c, req, duration, generated) ==
  WithHeaders(
    WithRequestID(WithError(NewLogObject(c, req, duration), c.store),
                  req.headers, generated),
    req.headers, includeHeaders)

\* The instant formatJson stamps and the date formatCommon prints.
IsoNow == "2026-11-03T12:00:00.000Z"

CommonDate == "03/Nov/2026:12:00:00 +0000"

\* A format function supplied by the caller.
CustomFormat(logObject) ==
  logObject.request.method \o " " \o logObject.request.url.path

Returned(formatter, output) ==
  [threw |-> FALSE, formatter |-> formatter, output |-> output, error |-> ""]

Threw(error) ==
  [threw |-> TRUE, formatter |-> "", output |-> "", error |-> error]

ThrewIn(formatter, error) ==
  [threw |-> TRUE, formatter |-> formatter, output |-> "", error |-> error]

\* format(logObject), for a format option that is a function
CallFormatFunction(format, logObject) ==
  IF format = ThrowingFormat
    THEN ThrewIn("custom", "format function failed")
    ELSE Returned("custom", CustomFormat(logObject))

\* A formatJson that writes its additions into the record it was called on.
LogObjectAfter_InPlace(name, logObject, output) ==
  IF name = "formatJson" THEN output ELSE logObject

\* this.logObject once a formatting method has returned: the methods read
\* it and build their result from copies, so it is as it was.
LogObjectAfter(name, logObject, output) == logObject

\* new Log(logObject)[formattingMethod]()
CallFormattingMethod(name, logObject, generated) ==
  CASE name = "formatJson" ->
         Returned(name, formatJson(logObject, generated, IsoNow))
    [] name = "formatCommon" -> Returned(name, formatCommon(logObject, CommonDate))
    [] name = "formatShort" -> Returned(name, formatShort(logObject))
    [] OTHER -> Threw("TypeError: " \o name \o " is not a function")

\* A format dispatch whose else branch falls back to the json format.
ApplyFormat_FallbackJson(format, logObject, generated) ==
  IF format.type = "function"
    THEN CallFormatFunction(format, logObject)
  ELSE IF format.type = "string"
    THEN CallFormattingMethod(getFormattingMethodName(format), logObject,
                              generated)
  ELSE CallFormattingMethod("formatJson", logObject, generated)

\* A format dispatch that takes the json format when given a function.
ApplyFormat_FunctionIgnored(format, logObject, generated) ==
  IF format.type \in {"function", "string"}
    THEN CallFormattingMethod(
           IF format.type = "function" THEN "formatJson"
           ELSE getFormattingMethodName(format), logObject, generated)
  ELSE Threw("Invalid formatting method type '" \o format.type \o "'!")

\* The if / else if / else over typeof format.
ApplyFormat(format, logObject, generated) ==
  IF format.type = "function"
    THEN CallFormatFunction(format, logObject)
  ELSE IF format.type = "string"
    THEN CallFormattingMethod(getFormattingMethodName(format), logObject,
                              generated)
  ELSE Threw("Invalid formatting method type '" \o format.type \o "'!")

\* logger[level] is a function
LoggerHas(level) == level \in LoggerMethods

\* The argument of storageAdapter.saveLog
SaveLogArgument(logObject) == logObject

Rejection(error) == [hook |-> "onAfterResponse", error |-> error]

Outcome(made, loggerCalls, saveLogCalls, errors) ==
  [calls |-> made, logged |-> loggerCalls, saved |-> saveLogCalls,
   threw |-> errors]

\* A dispatch that calls saveLog first and the logger after it.
Dispatch_SaveFirst(logger, level, output, logObject) ==
  IF ~LoggerHas(level)
    THEN Outcome(<< "saveLog" >>, <<>>, << SaveLogArgument(logObject) >>,
                 << "TypeError: logger[level] is not a function" >>)
  ELSE IF logger = "throwing"
    THEN Outcome(<< "saveLog", "logger" >>,
                 << [level |-> level, output |-> output] >>,
                 << SaveLogArgument(logObject) >>, << "logger failed" >>)
  ELSE Outcome(<< "saveLog", "logger" >>,
               << [level |-> level, output |-> output] >>,
               << SaveLogArgument(logObject) >>, <<>>)

\* logger[level](logOutput); await storageAdapter.saveLog(logObject), up to
\* the call of saveLog: the calls made in their order, and what was thrown.
Dispatch(logger, level, output, logObject) ==
  IF ~LoggerHas(level)
    THEN Outcome(<<>>, <<>>, <<>>,
                 << "TypeError: logger[level] is not a function" >>)
  ELSE IF logger = "throwing"
    THEN Outcome(<< "logger" >>, << [level |-> level, output |-> output] >>,
                 <<>>, << "logger failed" >>)
  ELSE Outcome(<< "logger", "saveLog" >>,
               << [level |-> level, output |-> output] >>,
               << SaveLogArgument(logObject) >>, <<>>)

\* ConsoleStorageAdapter.saveLog(log), which runs to its end within the
\* call: what pino is given, and the record as the call leaves it.  Another
\* adapter prints nothing.
ConsoleSaveLog(adapter, records, generated) ==
  IF adapter = "console"
    THEN [i \in DOMAIN records |->
            LET printed == formatJson(records[i], generated, IsoNow)
            IN  [printed |-> printed,
                 log |-> LogObjectAfter("formatJson", records[i], printed)]]
    ELSE <<>>

\* The hook registered with .onAfterHandle instead.
AfterResponseDue_OnAfterHandle(e) == pc[e] = "handled"

\* The hook is registered with .onAfterResponse: the framework runs it once
\* the response of the exchange has been sent.
AfterResponseDue(e) == pc[e] = "responded"

\* The clock is read when the store holds a start reading.
ReadsClock(store) == "requestStart" \in DOMAIN store /\ store.requestStart \in Int

\* .onAfterResponse up to its await: skip, duration, the log object, the
\* format, the logger, the call of saveLog.
AfterResponse(e) ==
  /\ Serving
  /\ AfterResponseDue(e)
  /\ IF SkipReturns(options.skip, request[e])
       THEN /\ pc' = [pc EXCEPT ![e] = "done"]
            /\ UNCHANGED << now, hrtimes, dispatchVars >>
       ELSE \E t \in ClockReadings, ms \in DateNowValues, suffix \in RandomSuffixes :
            \E logObject \in
                 { BuildLogObject(options.includeHeaders, ctx[e], request[e],
                     Duration(ctx[e].store, t), GeneratedID(ms, suffix)) } :
            \E result \in
                 { ApplyFormat(options.format, logObject, GeneratedID(ms, suffix)) } :
            \E outcome \in
                 { IF result.threw
                     THEN Outcome(<<>>, <<>>, <<>>, << result.error >>)
                     ELSE Dispatch(options.logger, options.level, result.output,
                            LogObjectAfter(result.formatter, logObject,
                                           result.output)) } :
              LET called == IF result.formatter = "" THEN <<>>
                            ELSE << [formatter |-> result.formatter,
                                     argument |-> logObject] >>
              IN  /\ t >= now
                  /\ now' = t
                  /\ hrtimes' = IF ReadsClock(ctx[e].store)
                                  THEN [hrtimes EXCEPT ![e].end = << t >>]
                                  ELSE hrtimes
                  /\ formatted' = [formatted EXCEPT ![e] = @ \o called]
                  /\ calls' = [calls EXCEPT ![e] =
                        @ \o (IF called = <<>> THEN <<>> ELSE << "format" >>)
                          \o outcome.calls]
                  /\ logged' = [logged EXCEPT ![e] = @ \o outcome.logged]
                  /\ saved' = [saved EXCEPT ![e] = @ \o outcome.saved]
                  /\ pinoInfo' = [pinoInfo EXCEPT ![e] =
                        @ \o ConsoleSaveLog(options.adapter, outcome.saved,
                                            GeneratedID(ms, suffix))]
                  /\ IF outcome.threw # <<>>
                       THEN /\ thrown' = [thrown EXCEPT ![e] =
                                            Append(@, Rejection(outcome.threw[1]))]
                            /\ pc' = [pc EXCEPT ![e] = "done"]
                            /\ UNCHANGED persist
                       ELSE /\ persist' = [persist EXCEPT ![e] = "pending"]
                            /\ pc' = [pc EXCEPT ![e] = "awaiting"]
                            /\ UNCHANGED thrown
  /\ UNCHANGED << configVars, request, ctx, response, errorsFired >>

\* saveLog's promise fulfils and the hook returns.
SaveLogResolve(e) ==
  /\ proc = "running"
  /\ pc[e] = "awaiting"
  /\ persist' = [persist EXCEPT ![e] = "ok"]
  /\ pc' = [pc EXCEPT ![e] = "done"]
  /\ UNCHANGED << configVars, now, request, ctx, response, errorsFired,
                  hrtimes, calls, formatted, logged, saved, pinoInfo, thrown >>

\* A saveLog call whose rejection is caught and dropped.
SaveLogRejected_Swallowed(error) == <<>>

\* What the hook does with a rejection of saveLog: the await rethrows it.
SaveLogRejected(error) == << Rejection(error) >>

\* saveLog's promise rejects (an adapter other than the console adapter).
SaveLogReject(e) ==
  /\ proc = "running"
  /\ pc[e] = "awaiting"
  /\ options.adapter = "custom"
  /\ persist' = [persist EXCEPT ![e] = "failed"]
  /\ thrown' = [thrown EXCEPT ![e] = @ \o SaveLogRejected("saveLog failed")]
  /\ pc' = [pc EXCEPT ![e] = "done"]
  /\ UNCHANGED << configVars, now, request, ctx, response, errorsFired,
                  hrtimes, calls, formatted, logged, saved, pinoInfo >>

\* ------------------------------------------------------- specification

Next ==
  \/ Construct
  \/ InitResolve
  \/ InitReject
  \/ \E e \in Exchanges : Receive(e)
  \/ \E e \in Exchanges : OnRequest(e)
  \/ \E e \in Exchanges : Derive(e)
  \/ \E e \in Exchanges : OnError(e)
  \/ \E e \in Exchanges : OnAfterHandle(e)
  \/ \E e \in Exchanges : SendResponse(e)
  \/ \E e \in Exchanges : AfterResponse(e)
  \/ \E e \in Exchanges : SaveLogResolve(e)
  \/ \E e \in Exchanges : SaveLogReject(e)

Spec == Init /\ [][Next]_vars

\* The scenarios of the fair specification: one exchange under a custom
\* adapter with each kind of format, level and skip, and two overlapping
\* exchanges under the defaults with a skip predicate.
FairOptions ==
  [format : {StringFormat("j", "son"), FunctionFormat, ObjectFormat},
   level : Levels, skip : Skips, adapter : {"custom"},
   includeHeaders : {IncludeHeadersDefault}, ipHeaders : {headersToCheck},
   logger : {"console"}]

FairScenarios ==
  (FairOptions \X { << i >> : i \in OverlapInbound })
  \cup ({ [format |-> StringFormat("j", "son"), level |-> "info",
           skip |-> "skipHealth", adapter |-> "console",
           includeHeaders |-> IncludeHeadersDefault,
           ipHeaders |-> headersToCheck, logger |-> "console"] }
          \X { w \in OverlapWorkloads : w[1].throws = <<>> /\ w[2].throws # <<>> })

FairInit == Init /\ << options, inbound >> \in FairScenarios

\* The framework runs the after-response hook of every exchange whose
\* response is out.
FairSpec ==
  FairInit /\ [][Next]_vars /\ \A e \in Exchanges : WF_vars(AfterResponse(e))

\* ----------------------------------------------------------- properties

\* The after-response hook of exchange e has run up to its await or its end.
AfterResponseRan(e) == pc[e] \in {"awaiting", "done"}

\* The configured skip predicate returns true for exchange e.
Skipped(e) == options.skip = "skipHealth" /\ request[e].path = "/health"

\* Every record the exchange handed to a formatter or to saveLog.
DispatchedRecords(e) ==
  { saved[e][i] : i \in DOMAIN saved[e] }
    \cup { formatted[e][i].argument : i \in DOMAIN formatted[e] }

\* C1: an exchange the skip predicate returns true for gets no formatter
\* call, no logger call and no saveLog call.
C1_SkipSuppressesDispatch ==
  \A e \in Exchanges :
    Skipped(e) =>
      /\ formatted[e] = <<>>
      /\ logged[e] = <<>>
      /\ saved[e] = <<>>
      /\ persist[e] = "none"

C1_Witness ==
  \E e \in Exchanges :
    /\ Skipped(e)
    /\ pc[e] = "done"
    /\ options.format.type = "function"
    /\ logged[e] = <<>>

\* What a failed construction leaves behind: nothing initialised, no hook.
ConstructionRaised ==
  /\ proc = "configError"
  /\ initState = "none"
  /\ ~hooksRegistered
  /\ \A e \in Exchanges : pc[e] = "idle" /\ logged[e] = <<>> /\ saved[e] = <<>>

BuiltInNames ==
  { StringFormat("j", "son"), StringFormat("c", "ommon"), StringFormat("s", "hort") }

\* C2 as stated: every format string other than json, common and short makes
\* the construction raise before init is called and before a hook is
\* registered.
C2_AnyOtherStringRaises ==
  (proc # "unconfigured" /\ options.format.type = "string"
     /\ options.format \notin BuiltInNames)
    => ConstructionRaised

\* C2, amended: a format string whose method name "format" + Capitalized(name)
\* is no method of Log makes the construction raise before init is called and
\* before a hook is registered, and no exchange is ever served or logged.
C2_UnknownFormatterRaises ==
  (proc # "unconfigured" /\ options.format.type = "string"
     /\ "format" \o ToUpperCase(options.format.first) \o options.format.rest
          \notin {"formatJson", "formatCommon", "formatShort"})
    => ConstructionRaised

C2_Witness ==
  /\ options.format = StringFormat("x", "ml")
  /\ proc = "configError"
  /\ initState = "none"

DefaultOptions ==
  [format |-> StringFormat("j", "son"), level |-> "info", skip |-> "none",
   adapter |-> "console", includeHeaders |-> IncludeHeadersDefault,
   ipHeaders |-> headersToCheck, logger |-> "console"]

\* C3: under the default options, a request with an authorization header is
\* dispatched with request.headers.authorization kept and equal to
\* "[REDACTED]" in every record given to a formatter or to saveLog.
C3_AuthorizationRedacted ==
  \A e \in Exchanges :
    (options = DefaultOptions /\ "authorization" \in DOMAIN request[e].headers)
      => \A rec \in DispatchedRecords(e) :
           /\ "authorization" \in DOMAIN rec.request.headers
           /\ rec.request.headers["authorization"] = "[REDACTED]"

\* C4: saveLog is never invoked before init has completed successfully.
C4_NoSaveBeforeInit ==
  \A e \in Exchanges : saved[e] # <<>> => initState = "ok"

\* C5: for every exchange the response is sent before saveLog is invoked,
\* and saveLog is invoked before its promise settles; while one exchange's
\* saveLog is pending, the next exchange can be received, every hook another
\* exchange is due for can run and that exchange's response can be sent.
C5_ResponseThenPersist ==
  \A e \in Exchanges :
    /\ saved[e] # <<>> => response[e].sent
    /\ persist[e] # "none" => saved[e] # <<>>
    /\ persist[e] \in {"ok", "failed"} => pc[e] = "done"
    /\ (persist[e] = "pending" /\ Serving) =>
         \A d \in Exchanges \ {e} :
           /\ (pc[d] = "idle" /\ d \in DOMAIN inbound
                 /\ \A c \in Exchanges : c < d => pc[c] # "idle")
                => ENABLED Receive(d)
           /\ pc[d] = "received" => ENABLED OnRequest(d)
           /\ pc[d] = "started" => ENABLED Derive(d)
           /\ pc[d] = "derived" => ENABLED OnAfterHandle(d)
           /\ (pc[d] \in {"handled", "errored"}
                 /\ errorsFired[d] = inbound[d].throws) => ENABLED SendResponse(d)
           /\ pc[d] = "responded" => ENABLED AfterResponse(d)

C5_Witness ==
  \E e, d \in Exchanges :
    /\ e # d
    /\ persist[e] = "pending"
    /\ response[e].sent
    /\ persist[d] = "ok"
    /\ response[d].sent

\* The status the framework sent for exchange e.
StatusSent(e) == IF errorsFired[e] # <<>> THEN 500 ELSE 200

\* C6: when saveLog fails for an exchange, the failure comes out of the
\* after-response hook as its rejection, the response sent for the exchange
\* is as it was sent, the process keeps serving, and every other exchange
\* whose response is out can still be logged.
C6_PersistFailureSurfaced ==
  \A e \in Exchanges :
    persist[e] = "failed" =>
      /\ \E i \in DOMAIN thrown[e] :
           thrown[e][i] = [hook |-> "onAfterResponse", error |-> "saveLog failed"]
      /\ response[e] = [sent |-> TRUE, status |-> StatusSent(e)]
      /\ initState # "failed" =>
           /\ proc = "running"
           /\ \A d \in Exchanges \ {e} :
                pc[d] = "responded" => ENABLED AfterResponse(d)

C6_Witness ==
  \E e, d \in Exchanges :
    /\ e # d
    /\ persist[e] = "failed"
    /\ thrown[e] # <<>>
    /\ persist[d] = "ok"
    /\ Len(logged[d]) = 1

\* The format option is one the after-response hook can apply.
ValidFormat == options.format.type \in {"string", "function"}

GeneratedIDs ==
  { "req-" \o ToString(ms) \o "-" \o suffix :
      ms \in DateNowValues, suffix \in RandomSuffixes }

\* The x-request-id header of exchange e is present and non-empty.
HasRequestIDHeader(e) ==
  /\ "x-request-id" \in DOMAIN request[e].headers
  /\ request[e].headers["x-request-id"] # ""

\* requestID, as C8 has it, in a record of exchange e.
RequestIDOk(e, rec) ==
  /\ "requestID" \in DOMAIN rec.request
  /\ rec.request.requestID \notin {"", Null, Undefined}
  /\ IF HasRequestIDHeader(e)
       THEN rec.request.requestID = request[e].headers["x-request-id"]
       ELSE rec.request.requestID \in GeneratedIDs

\* C8: in every record given to a formatter, to the logger (the json
\* format's output) or to saveLog, request.requestID is a non-empty string:
\* the x-request-id header when that is present and non-empty, otherwise an
\* id of the form req-<millis>-<suffix>.
C8_RequestIDNonEmpty ==
  \A e \in Exchanges :
    /\ \A rec \in DispatchedRecords(e) : RequestIDOk(e, rec)
    /\ \A i \in DOMAIN logged[e] :
         (formatted[e] # <<>> /\ formatted[e][1].formatter = "formatJson")
           => RequestIDOk(e, logged[e][i].output)

C8_Witness ==
  \E e \in Exchanges :
    /\ "x-request-id" \in DOMAIN request[e].headers
    /\ request[e].headers["x-request-id"] = ""
    /\ saved[e] # <<>>
    /\ saved[e][1].request.requestID \in GeneratedIDs
    /\ formatted[e][1].formatter = "formatJson"

\* C9: when the error hook fired for an exchange, every dispatched record's
\* error is the value the hook was first given; when it did not fire, no
\* dispatched record has an error key; and the error hook throws nothing.
C9_ErrorCaptured ==
  \A e \in Exchanges :
    /\ \A rec \in DispatchedRecords(e) :
         IF errorsFired[e] # <<>>
           THEN "error" \in DOMAIN rec /\ rec.error = errorsFired[e][1]
           ELSE "error" \notin DOMAIN rec
    /\ \A i \in DOMAIN thrown[e] : thrown[e][i].hook # "onError"

C9_Witness ==
  \E e \in Exchanges :
    /\ Len(errorsFired[e]) = 2
    /\ errorsFired[e][1] # errorsFired[e][2]
    /\ saved[e] # <<>>
    /\ saved[e][1].error = errorsFired[e][1]

\* C10: with a format that is neither a string nor a function the
\* construction succeeds, and every exchange that is not skipped has its
\* after-response hook reject with the invalid-type error, with no formatter
\* call, no logger call and no saveLog call.
C10_InvalidFormatType ==
  options.format.type \notin {"string", "function"} =>
    /\ proc # "configError"
    /\ proc # "unconfigured" => hooksRegistered /\ initState # "none"
    /\ \A e \in Exchanges :
         /\ formatted[e] = <<>> /\ logged[e] = <<>> /\ saved[e] = <<>>
         /\ persist[e] = "none"
         /\ (AfterResponseRan(e) /\ ~Skipped(e)) =>
              /\ pc[e] = "done"
              /\ thrown[e] =
                   << [hook |-> "onAfterResponse",
                       error |-> "Invalid formatting method type 'object'!"] >>

C10_Witness ==
  \E e \in Exchanges :
    /\ options.format.type = "object"
    /\ pc[e] = "done"
    /\ ~Skipped(e)
    /\ thrown[e] # <<>>

\* The places in the ipHeaders list whose header the request of exchange e
\* carries with a non-empty value.
IPHeaderHits(e) ==
  { i \in 1..Len(options.ipHeaders) :
      /\ options.ipHeaders[i] \in DOMAIN request[e].headers
      /\ request[e].headers[options.ipHeaders[i]] # "" }

\* The address the fallback chain gives exchange e: the first entry of the
\* first such header, else the socket peer address, else none.
ChainIP(e) ==
  IF IPHeaderHits(e) # {}
    THEN LET first == CHOOSE i \in IPHeaderHits(e) :
                        \A j \in IPHeaderHits(e) : i <= j
         IN  FirstEntry(request[e].headers[options.ipHeaders[first]])
  ELSE IF server.peer # Null THEN server.peer
  ELSE Undefined

\* C11: in every record dispatched for an exchange that was served without
\* an error, request.ip is what the fallback chain gives: the value of the
\* first ipHeaders header that is present and non-empty, else the socket
\* peer address, and absent only when there is neither.
C11_IPFallbackChain ==
  \A e \in Exchanges :
    errorsFired[e] = <<>> =>
      \A rec \in DispatchedRecords(e) : rec.request.ip = ChainIP(e)

\* The milliseconds between the on-request hook of exchange e and its
\* after-response step; 0 when the on-request hook took no reading.
Elapsed(e) ==
  IF hrtimes[e].start = <<>> \/ hrtimes[e].end = <<>> THEN 0
  ELSE hrtimes[e].end[1] - hrtimes[e].start[1]

\* The record is fully assembled for exchange e.
Assembled(e, rec) ==
  /\ {"ip", "requestID", "method", "url", "headers"} \subseteq DOMAIN rec.request
  /\ rec.request.ip = ctx[e].ip
  /\ rec.request.requestID \notin {"", Null, Undefined}
  /\ rec.request.method = request[e].method
  /\ rec.request.url.path = request[e].path
  /\ \A h \in DOMAIN rec.request.headers :
       /\ HeadersHas(request[e].headers, h)
       /\ rec.request.headers[h] = HeadersGet(request[e].headers, h)
  /\ rec.response.status_code = response[e].status
  /\ rec.response.time = Elapsed(e)
  /\ errorsFired[e] # <<>> =>
       "error" \in DOMAIN rec /\ rec.error = errorsFired[e][1]

\* C12: when the format option is a function, an exchange that is not
\* skipped has it called exactly once and no built-in formatter called by
\* the hook; the function is given the fully assembled record; and what the
\* logger method of the configured level is given is what the function
\* returned (here the method and the path, separated by a space).
C12_FunctionFormatCalledOnce ==
  \A e \in Exchanges :
    (options.format.type = "function" /\ AfterResponseRan(e) /\ ~Skipped(e)) =>
      /\ Len(formatted[e]) = 1
      /\ formatted[e][1].formatter = "custom"
      /\ Assembled(e, formatted[e][1].argument)
      /\ Len(logged[e]) <= 1
      /\ \A i \in DOMAIN logged[e] :
           /\ logged[e][i].level = options.level
           /\ logged[e][i].output = request[e].method \o " " \o request[e].path

C12_Witness ==
  \E e \in Exchanges :
    /\ options.format = FunctionFormat
    /\ errorsFired[e] # <<>>
    /\ Len(formatted[e]) = 1
    /\ "error" \in DOMAIN formatted[e][1].argument
    /\ Len(logged[e]) = 1
    /\ logged[e][1].output = "GET /users"
    /\ saved[e] # <<>>

\* The short line of a record of exchange e with the request's own query
\* string after the path.
ShortLine(e, rec) ==
  "[" \o Interpolate(rec.request.ip) \o "] " \o request[e].method \o " "
  \o request[e].path \o RawSearch(request[e].search) \o " "
  \o ToString(rec.response.status_code)
  \o " (" \o formatDuration(rec.response.time) \o ")"

\* C13: under the short format, what the logger is given for an exchange is
\* exactly "[<ip>] <METHOD> <path><?queryString> <status> (<duration>)",
\* the query part being there exactly when the request has a query
\* parameter and reproducing the request's query string, and no header
\* value being part of the line.
C13_ShortLineReproducesQuery ==
  \A e \in Exchanges :
    \A i \in DOMAIN logged[e] :
      (formatted[e] # <<>> /\ formatted[e][1].formatter = "formatShort") =>
        logged[e][i].output = ShortLine(e, formatted[e][1].argument)

\* The common log line of exchange e with the given user and protocol, and
\* "-" for the size.
CommonLine(e, user, protocol) ==
  Interpolate(ctx[e].ip) \o " - " \o user \o " [" \o CommonDate \o "] \""
  \o request[e].method \o " " \o request[e].path \o " " \o protocol
  \o "\" " \o ToString(response[e].status) \o " -"

\* The request of exchange e carries Basic credentials: those of alice.
CarriesBasicAuth(e) ==
  /\ "authorization" \in DOMAIN request[e].headers
  /\ request[e].headers["authorization"] = "Basic YWxpY2U6c2VjcmV0"

CarriesProto(e) == "x-forwarded-proto" \in DOMAIN request[e].headers

\* includeHeaders names the header, spelled this way.
Listed(name) ==
  \E i \in 1..Len(options.includeHeaders) : options.includeHeaders[i] = name

\* The common format was applied for exchange e and its line logged.
CommonLogged(e) ==
  /\ logged[e] # <<>>
  /\ formatted[e] # <<>>
  /\ formatted[e][1].formatter = "formatCommon"

\* C14 as stated: in the common line of an exchange the user is "-" unless
\* the request's Authorization header parses as Basic credentials (then the
\* decoded username), the protocol is "HTTP/1.1" unless the request carries
\* x-forwarded-proto (then that header's value), and the size is "-".
C14_CommonFieldsFromRequest ==
  \A e \in Exchanges :
    CommonLogged(e) =>
      logged[e][1].output =
        CommonLine(e, IF CarriesBasicAuth(e) THEN "alice" ELSE "-",
                      IF CarriesProto(e)
                        THEN request[e].headers["x-forwarded-proto"]
                        ELSE "HTTP/1.1")

\* C14, amended: the user is the decoded username only when includeHeaders
\* names authorization, in lower case, and the request's Authorization
\* header parses as Basic credentials, else "-"; the protocol is the
\* request's x-forwarded-proto only when includeHeaders names
\* x-forwarded-proto, in lower case, and the request carries it, else
\* "HTTP/1.1"; the size is "-".
C14_CommonFieldsFromIncludedHeaders ==
  \A e \in Exchanges :
    CommonLogged(e) =>
      logged[e][1].output =
        CommonLine(e,
          IF Listed("authorization") /\ CarriesBasicAuth(e) THEN "alice" ELSE "-",
          IF Listed("x-forwarded-proto") /\ CarriesProto(e)
            THEN request[e].headers["x-forwarded-proto"]
            ELSE "HTTP/1.1")

C14_Witness ==
  \E e \in Exchanges :
    /\ CommonLogged(e)
    /\ Listed("x-forwarded-proto")
    /\ logged[e][1].output =
         "1.2.3.4 - alice [03/Nov/2026:12:00:00 +0000] \"GET /users https\" 200 -"

\* The record carries nothing the json format adds.
Unenriched(rec) ==
  /\ "timestamp" \notin DOMAIN rec
  /\ "message" \notin DOMAIN rec.response

\* out is rec with the json format's additions and no other difference.
EnrichedCopy(e, rec, out) ==
  /\ DOMAIN out = DOMAIN rec \cup {"timestamp"}
  /\ out.timestamp = IsoNow
  /\ \A k \in DOMAIN rec \ {"request", "response"} : out[k] = rec[k]
  /\ DOMAIN out.request = DOMAIN rec.request \cup {"requestID"}
  /\ \A k \in DOMAIN rec.request \ {"requestID"} : out.request[k] = rec.request[k]
  /\ IF "requestID" \in DOMAIN rec.request /\ ~Falsy(rec.request.requestID)
       THEN out.request.requestID = rec.request.requestID
       ELSE out.request.requestID \in GeneratedIDs
  /\ DOMAIN out.response = DOMAIN rec.response \cup {"message"}
  /\ \A k \in DOMAIN rec.response : out.response[k] = rec.response[k]
  /\ out.response.message =
       request[e].method \o " " \o request[e].path \o " completed with status "
       \o ToString(response[e].status) \o " in " \o formatDuration(Elapsed(e))

\* C15: the record a built-in formatter was called on is afterwards as it
\* was before, whatever was called on it (the hook's formatter, then the
\* console adapter's formatJson): it is the record saveLog is given, and it
\* has no timestamp and no response.message; what formatJson returns is that
\* record with request.requestID, response.message and timestamp and no
\* other difference.
C15_FormatJsonCopies ==
  \A e \in Exchanges :
    /\ \A i \in DOMAIN saved[e] :
         /\ Unenriched(saved[e][i])
         /\ saved[e][i] = formatted[e][1].argument
         /\ (formatted[e][1].formatter = "formatJson" /\ logged[e] # <<>>) =>
              EnrichedCopy(e, saved[e][i], logged[e][1].output)
    /\ \A i \in DOMAIN pinoInfo[e] :
         /\ Unenriched(pinoInfo[e][i].log)
         /\ pinoInfo[e][i].log = saved[e][i]
         /\ EnrichedCopy(e, saved[e][i], pinoInfo[e][i].printed)

C15_Witness ==
  \E e \in Exchanges :
    /\ formatted[e] # <<>>
    /\ formatted[e][1].formatter = "formatJson"
    /\ logged[e] # <<>>
    /\ logged[e][1].output.timestamp = IsoNow
    /\ pinoInfo[e] # <<>>
    /\ pinoInfo[e][1].printed.response.message =
         "GET /users completed with status 200 in 42ms"
    /\ Unenriched(pinoInfo[e][1].log)

\* C16: whatever the interleaving of the hooks of the exchanges, the store
\* of each exchange holds only what its own hooks put there, and every
\* record dispatched for an exchange has the duration between that
\* exchange's own on-request reading and its own after-response reading and
\* the error that exchange's own error hook was given, or no error when it
\* was given none.
C16_PerExchangeState ==
  \A e \in Exchanges :
    /\ "requestStart" \in DOMAIN ctx[e].store =>
         hrtimes[e].start = << ctx[e].store.requestStart >>
    /\ "error" \in DOMAIN ctx[e].store =>
         (errorsFired[e] # <<>> /\ ctx[e].store.error = errorsFired[e][1])
    /\ \A rec \in DispatchedRecords(e) :
         /\ rec.response.time = Elapsed(e)
         /\ IF errorsFired[e] = <<>> THEN "error" \notin DOMAIN rec
              ELSE "error" \in DOMAIN rec /\ rec.error = errorsFired[e][1]

\* Two exchanges in flight at the same time, one failing and one not, both
\* dispatched.
C16_Witness ==
  \E e, d \in Exchanges :
    /\ e # d
    /\ hrtimes[e] = [start |-> << 0 >>, end |-> << ClockTick >>]
    /\ hrtimes[d] = [start |-> << 0 >>, end |-> << ClockTick >>]
    /\ errorsFired[e] = <<>> /\ errorsFired[d] # <<>>
    /\ saved[e] # <<>> /\ saved[d] # <<>>
    /\ "error" \notin DOMAIN saved[e][1]
    /\ saved[d][1].error = errorsFired[d][1]
    /\ saved[e][1].response.time = ClockTick

\* C17: every dispatched record has request.method, response.status_code
\* and response.time; the time is never negative, is 0 when the exchange's
\* on-request hook took no start reading, and is otherwise the milliseconds
\* from that reading to the reading of the after-response step.
C17_MethodStatusTimePresent ==
  \A e \in Exchanges :
    \A rec \in DispatchedRecords(e) :
      /\ "method" \in DOMAIN rec.request
      /\ rec.request.method = request[e].method
      /\ {"status_code", "time"} \subseteq DOMAIN rec.response
      /\ rec.response.status_code \in {200, 500}
      /\ rec.response.time \in Nat
      /\ IF hrtimes[e].start = <<>>
           THEN rec.response.time = 0 /\ hrtimes[e].end = <<>>
           ELSE /\ hrtimes[e].end # <<>>
                /\ rec.response.time = hrtimes[e].end[1] - hrtimes[e].start[1]

\* One exchange that failed before its on-request hook ran, logged with
\* time 0, and one that took a clock tick.
C17_Witness ==
  \E e, d \in Exchanges :
    /\ e # d
    /\ hrtimes[e].start = <<>>
    /\ saved[e] # <<>>
    /\ saved[e][1].response = [status_code |-> 500, time |-> 0]
    /\ hrtimes[d].start = << 0 >>
    /\ saved[d] # <<>>
    /\ saved[d][1].response = [status_code |-> 200, time |-> ClockTick]

\* The names of the allow-list that the request of exchange e has a header
\* for (header names match whatever their case).
AllowedPresent(e) ==
  { options.includeHeaders[i] : i \in 1..Len(options.includeHeaders) }
    \cap { name \in {"x-forwarded-for", "authorization", "Authorization",
                      "x-forwarded-proto", "x-real-ip", "x-request-id",
                      "cookie"} :
             ToLowerCase(name) \in DOMAIN request[e].headers }

\* request.headers of the record is the allow-list applied to the request.
HeadersAllowed(e, rec) ==
  /\ "headers" \in DOMAIN rec.request
  /\ DOMAIN rec.request.headers = AllowedPresent(e)
  /\ \A h \in DOMAIN rec.request.headers :
       rec.request.headers[h] = request[e].headers[ToLowerCase(h)]

\* C18: in every record given to a formatter, to saveLog, to the logger
\* (the json format's output) or printed by the console adapter, the keys of
\* request.headers are exactly the names of includeHeaders that the request
\* has a header for, each with the request's value, so that no header
\* outside the allow-list is among them.
C18_OnlyAllowedHeaders ==
  \A e \in Exchanges :
    /\ \A rec \in DispatchedRecords(e) : HeadersAllowed(e, rec)
    /\ \A i \in DOMAIN logged[e] :
         (formatted[e] # <<>> /\ formatted[e][1].formatter = "formatJson")
           => HeadersAllowed(e, logged[e][i].output)
    /\ \A i \in DOMAIN pinoInfo[e] : HeadersAllowed(e, pinoInfo[e][i].printed)

C18_Witness ==
  \E e \in Exchanges :
    /\ "cookie" \in DOMAIN request[e].headers
    /\ options.includeHeaders = <<"Authorization", "x-real-ip", "Authorization">>
    /\ saved[e] # <<>>
    /\ saved[e][1].request.headers = [h \in {"Authorization"} |-> "Bearer xyz"]
    /\ pinoInfo[e] # <<>>

\* The places of a call in the calls the hook made for exchange e.
Places(e, call) == { i \in DOMAIN calls[e] : calls[e][i] = call }

\* Formatting or the logger call failed for exchange e.
DispatchFailed(e) ==
  \E i \in DOMAIN thrown[e] :
    /\ thrown[e][i].hook = "onAfterResponse"
    /\ thrown[e][i].error # "saveLog failed"

\* C19: for every exchange, a saveLog call comes after exactly one logger
\* call and after a formatter call, none of which threw; when the formatter
\* throws, the logger throws or the level names no method of the logger,
\* saveLog is not called for the exchange; and a level that names no method
\* of the logger does not make the construction fail.
C19_LoggerBeforeSaveLog ==
  /\ \A e \in Exchanges :
       /\ \A i \in Places(e, "saveLog") :
            /\ Places(e, "logger") # {}
            /\ \A j \in Places(e, "logger") : j < i
            /\ \E j \in Places(e, "format") : j < i
            /\ ~DispatchFailed(e)
       /\ Len(saved[e]) = Cardinality(Places(e, "saveLog"))
       /\ Len(logged[e]) = Cardinality(Places(e, "logger"))
       /\ (AfterResponseRan(e) /\ ~Skipped(e)
             /\ (\/ options.format = ThrowingFormat
                 \/ options.format.type \notin {"string", "function"}
                 \/ options.logger = "throwing"
                 \/ options.level \notin {"debug", "info", "warn", "error"}))
            => /\ saved[e] = <<>>
               /\ persist[e] = "none"
               /\ pinoInfo[e] = <<>>
               /\ DispatchFailed(e)
  /\ (proc = "configError") => options.format.type = "string"

C19_Witness ==
  \E e \in Exchanges :
    /\ options.logger = "throwing"
    /\ options.level = "info"
    /\ pc[e] = "done"
    /\ calls[e] = << "format", "logger" >>
    /\ Len(logged[e]) = 1
    /\ saved[e] = <<>>
    /\ thrown[e] = << [hook |-> "onAfterResponse", error |-> "logger failed"] >>

\* Stores a hook can find: the application's state alone, and with each of
\* the hooks' keys already set.
HeldStores ==
  { InitialStore,
    Spread(InitialStore, [error |-> "first"]),
    Spread(InitialStore, [requestStart |-> 0]),
    Spread(InitialStore, [responseSize |-> 7]),
    Spread(InitialStore, [error |-> "first", requestStart |-> 0]) }

\* The store after a hook's merge has the store's keys and the hook's key,
\* every key of the store with the value it had.
MergeKeeps(store, after, key) ==
  /\ DOMAIN after = (DOMAIN store) \cup {key}
  /\ \A k \in DOMAIN store : after[k] = store[k]

\* Each hook's merge keeps what a store holds and sets the hook's key only
\* where the store has none.
MergesKeepHeld ==
  \A store \in HeldStores :
    /\ MergeKeeps(store, StoreAfterError(store, "second"), "error")
    /\ ("error" \notin DOMAIN store
          => StoreAfterError(store, "second").error = "second")
    /\ \A t \in ClockReadings :
         /\ MergeKeeps(store, StoreAfterRequest(store, t), "requestStart")
         /\ ("requestStart" \notin DOMAIN store
               => StoreAfterRequest(store, t).requestStart = t)
    /\ MergeKeeps(store, StoreAfterHandle(store), "responseSize")
    /\ ("responseSize" \notin DOMAIN store
          => StoreAfterHandle(store).responseSize = Undefined)

\* C20: no step removes a key from an exchange's store or changes the value
\* under a key the store already has; each hook's merge sets its key only
\* where the store has none; and once the error hook has fired for an
\* exchange its store holds the first error it was given.
C20_FirstWriteWins ==
  /\ [][\A e \in Exchanges :
          \A k \in DOMAIN ctx[e].store :
            /\ k \in DOMAIN ctx'[e].store
            /\ ctx'[e].store[k] = ctx[e].store[k]]_vars
  /\ [](/\ MergesKeepHeld
        /\ \A e \in Exchanges :
             errorsFired[e] # <<>> =>
               /\ "error" \in DOMAIN ctx[e].store
               /\ ctx[e].store.error = errorsFired[e][1])

C20_Witness ==
  \E e \in Exchanges :
    /\ Len(errorsFired[e]) = 2
    /\ errorsFired[e][1] # errorsFired[e][2]
    /\ pc[e] = "errored"
    /\ ctx[e].store.error = errorsFired[e][1]
    /\ ctx[e].store.appState = InitialStore.appState
    /\ "requestStart" \in DOMAIN ctx[e].store

====
